---- MODULE Spec2Model ----
(***************************************************************************)
(* Model of the db-migration orchestrator (bontaramsonta/db-migration).    *)
(*                                                                         *)
(* The state is the git history of the repository, the tracking table      *)
(* sqlScriptExec (the ledger), the committed effects of the scripts, the   *)
(* open database transaction and the position and locals of Migrator.Run.  *)
(* Texts (paths, script names, lines of the missed-scripts file) are       *)
(* sequences of one-character strings, so that the path and string         *)
(* functions of the code are computed and not assumed.                     *)
(*                                                                         *)
(* Environment assumptions: the working tree is a clean checkout of HEAD,  *)
(* the process is started in the repository root, no commit is made while  *)
(* a run is in progress, the contents of distinct paths are dissimilar     *)
(* (git reports no renames), and the database is transactional: what a     *)
(* script did inside its transaction becomes durable only at COMMIT.       *)
(***************************************************************************)
EXTENDS Integers, Sequences, FiniteSets, TLC

\* ------------------------------------------------------------------ bounds
MaxCommits == 3
MaxRuns == 2

\* ------------------------------------------------------------------- texts
SqlSuffix == <<".", "s", "q", "l">>
Slash == <<"/">>
Dot == <<".">>
Hash == <<"#">>
Space == " "

RepoRoot == <<"/", "r", "e", "p", "o">>
MigrationsName == <<"m", "i", "g", "r", "a", "t", "i", "o", "n", "s">>
ASql == <<"a">> \o SqlSuffix
BSql == <<"b">> \o SqlSuffix

\* strings.HasPrefix
HasPrefix(s, p) == Len(s) >= Len(p) /\ SubSeq(s, 1, Len(p)) = p

\* strings.HasSuffix
HasSuffix(s, p) == Len(s) >= Len(p) /\ SubSeq(s, Len(s) - Len(p) + 1, Len(s)) = p

\* strings.Contains
Contains(s, sub) == \E i \in 1..(Len(s) - Len(sub) + 1) : SubSeq(s, i, i + Len(sub) - 1) = sub

\* strings.TrimSpace
RECURSIVE TrimSpace(_)
TrimSpace(s) ==
    IF s = <<>> THEN s
    ELSE IF Head(s) = Space THEN TrimSpace(Tail(s))
    ELSE IF s[Len(s)] = Space THEN TrimSpace(SubSeq(s, 1, Len(s) - 1))
    ELSE s

\* index of the last path separator of s, 0 when there is none
LastSlash(s) ==
    LET at == {i \in 1..Len(s) : s[i] = "/"}
    IN  IF at = {} THEN 0 ELSE CHOOSE i \in at : \A j \in at : j <= i

\* filepath.Base (paths of the model are clean and have no trailing separator)
Base(s) == IF s = <<>> THEN Dot ELSE SubSeq(s, LastSlash(s) + 1, Len(s))

\* filepath.Dir
Dir(s) ==
    IF LastSlash(s) = 0 THEN Dot
    ELSE IF LastSlash(s) = 1 THEN Slash
    ELSE SubSeq(s, 1, LastSlash(s) - 1)

\* filepath.Join of two clean elements; an empty element is ignored
Join(a, b) == IF a = <<>> THEN b ELSE IF b = <<>> THEN a ELSE a \o Slash \o b

\* ---------------------------------------------------------- the repository
\* the paths that commits may touch, in the byte order in which git lists them
AllPaths ==
    << ASql,
       Join(MigrationsName, ASql),
       Join(MigrationsName, BSql) >>

Paths == {AllPaths[i] : i \in 1..Len(AllPaths)}

\* content of a path in a tree: 0 = absent, 1 and 2 = two different contents
Contents == {0, 1, 2}

EmptyTree == [p \in Paths |-> 0]

\* the scripts directory given on the command line: the repository root
\* or its sub-directory migrations
ScriptsDirs == {RepoRoot, Join(RepoRoot, MigrationsName)}

\* Config.MissedScriptsFile: NoFile is the absent argument, otherwise the
\* lines of the file the operator supplies
NoFile == [given |-> FALSE, lines |-> <<>>]
MissedFiles ==
    { [given |-> TRUE, lines |-> << BSql >>],
      [given |-> TRUE, lines |-> << BSql, BSql >>],
      [given |-> TRUE,
       lines |-> << Hash \o <<"x">>, <<Space>> \o Hash \o <<"y">>,
                    <<Space>> \o ASql \o <<Space>>, <<>>, <<Space>> >>] }

VARIABLES
    commits,        \* git history: sequence of trees, HEAD is the last
    isRepo,         \* the scripts directory is inside a git repository
    tableExists,    \* the table sqlScriptExec exists in the database
    scriptsDir,     \* Config.ScriptsDir
    missedFile,     \* Config.MissedScriptsFile: NoFile or the lines of the file
    ledger,         \* table sqlScriptExec, in sno order
    effects,        \* names of the scripts whose SQL effects are committed, in commit order
    tx,             \* the open transaction: NoTx or its uncommitted work
    pc,             \* position of Migrator.Run
    lastGitID,      \* Run local
    executedScripts,\* Run / executeMissedScripts local
    currentCommit,  \* Run / executeMissedScripts local
    missedScripts,  \* executeMissedScripts local: the parsed list
    scripts,        \* Run local: discovered scripts
    pendingScripts, \* Run local
    idx,            \* loop index i of the loop that called executeScript
    phase,          \* "missed" or "discovery": the caller of executeScript
    counts,         \* successCount, failedCount, skippedCount
    summary,        \* what console.Summary printed in this run, NoSummary if nothing
    result,         \* what the last Run returned
    errName,        \* the script named by the returned error
    runs,           \* number of runs started
    log,            \* this run: scripts for which a transaction was begun
    ledger0,        \* the ledger when this run started
    lenV,           \* length of the ledger when this run read the executed names (step 5)
    execErr,        \* this run: the step of executeScript that failed, "none" if none
    dirty,          \* a commit was made since the last run started
    prev            \* the previous run: its configuration, its result, no commit since

vars == << commits, isRepo, tableExists, scriptsDir, missedFile, ledger, effects, tx, pc,
           lastGitID, executedScripts, currentCommit, missedScripts, scripts,
           pendingScripts, idx, phase, counts, summary, result, errName, runs,
           log, ledger0, lenV, execErr, dirty, prev >>

\* ------------------------------------------------------------------- git
head == Len(commits)

TreeAt(c) == IF c = 0 THEN EmptyTree ELSE commits[c]

\* committer time (%ct) of commit c: commits are made at increasing times
CommitTime(c) == c

\* wall-clock time of the k-th call of time.Now() in a run: later than every commit
Now(k) == MaxCommits + k

\* status letter of path p in `git diff --name-status from to`, "" when unchanged;
\* from = 0 is the empty revision id, diffed as the empty tree
DiffStatus(from, to, p) ==
    LET a == TreeAt(from)[p]
        b == TreeAt(to)[p]
    IN  IF a = b THEN ""
        ELSE IF a = 0 THEN "A"
        ELSE IF b = 0 THEN "D"
        ELSE "M"

\* Git.DiffFileStatus: map from changed path to status
DiffFileStatus(from, to) ==
    [p \in {q \in Paths : DiffStatus(from, to, q) # ""} |-> DiffStatus(from, to, p)]

\* mutant: the diff is always taken from the empty tree
DiffFileNames_FromEmptyTree(from, to) ==
    SelectSeq(AllPaths, LAMBDA p : DiffStatus(0, to, p) # "")

\* Git.DiffFileNames: the changed paths in git's listing order
DiffFileNames(from, to) ==
    SelectSeq(AllPaths, LAMBDA p : DiffStatus(from, to, p) # "")

\* the scripts directory relative to the repository root: git resolves a
\* pathspec against the directory the command runs in (cmd.Dir = workDir)
WorkDirPrefix ==
    IF scriptsDir = RepoRoot THEN <<>>
    ELSE SubSeq(scriptsDir, Len(RepoRoot) + 2, Len(scriptsDir))

\* the commits reachable from HEAD that added path p
AddCommits(p) ==
    {c \in 1..head : p \in Paths /\ TreeAt(c)[p] # 0 /\ TreeAt(c - 1)[p] = 0}

\* Git.GetFileCommitTimestamp, called as the k-th lookup of the run:
\* `git log --follow --diff-filter=A --format=%ct -1 -- filepath` prints the
\* newest commit that added the path; no output falls back to time.Now()
GetFileCommitTimestamp(filepath, k) ==
    LET adds == AddCommits(Join(WorkDirPrefix, filepath))
    IN  IF adds = {} THEN Now(k)
        ELSE CommitTime(CHOOSE c \in adds : \A d \in adds : d <= c)

\* the directory test of GetChangedScripts: true when the file is skipped
\* (the inner test repeats the suffix test, so no .sql file is ever skipped)
SkippedByDirCheck(file, dir) ==
    /\ ~Contains(Dir(file), Base(dir))
    /\ Dir(file) # Base(dir)
    /\ SubSeq(file, 1, Len(Base(dir))) # Base(dir)
    /\ ~HasSuffix(file, SqlSuffix)

\* file[:len(scriptsBase)] is evaluated, and panics, when the first two
\* conjuncts hold and the path is shorter than the directory's base name
SlicePanics(file, dir) ==
    /\ HasSuffix(file, SqlSuffix)
    /\ ~Contains(Dir(file), Base(dir))
    /\ Dir(file) # Base(dir)
    /\ Len(file) < Len(Base(dir))

GetChangedScriptsPanics(from, to, dir) ==
    LET files == DiffFileNames(from, to)
    IN  \E i \in 1..Len(files) : SlicePanics(files[i], dir)

\* the ScriptInfo list of GetChangedScripts before it is sorted
RECURSIVE CollectScripts(_, _, _)
CollectScripts(files, k, dir) ==
    IF k > Len(files) THEN <<>>
    ELSE IF ~HasSuffix(files[k], SqlSuffix) \/ SkippedByDirCheck(files[k], dir)
         THEN CollectScripts(files, k + 1, dir)
         ELSE << [Name |-> Base(files[k]), Path |-> files[k],
                  Timestamp |-> GetFileCommitTimestamp(files[k], k)] >>
              \o CollectScripts(files, k + 1, dir)

\* sort.Slice by Timestamp.Before: every ordering with non-decreasing
\* timestamps is a possible result (the sort is not stable)
SortSlice(s) ==
    LET n == Len(s)
        perms == {f \in [1..n -> 1..n] : \A i, j \in 1..n : i # j => f[i] # f[j]}
    IN  { [i \in 1..n |-> s[f[i]]] :
            f \in {g \in perms : \A i, j \in 1..n : i < j => s[g[i]].Timestamp <= s[g[j]].Timestamp} }

\* Git.GetChangedScripts: the set of lists it may return
GetChangedScripts(from, to, dir) ==
    SortSlice(CollectScripts(DiffFileNames(from, to), 1, dir))

\* os.ReadFile of a script: the working tree is the checkout of HEAD; an
\* absolute path lies under the repository root, a relative one is resolved
\* against the working directory of the process, the repository root
ReadFileOK(path) ==
    LET rel == IF HasPrefix(path, Slash)
               THEN SubSeq(path, Len(RepoRoot) + 2, Len(path))
               ELSE path
    IN  rel \in Paths /\ TreeAt(head)[rel] # 0

\* ---------------------------------------------------------------- tracker
Row(name, completed, endOfBatch, gitID) ==
    [scriptName |-> name, completed |-> completed, endofbatch |-> endOfBatch,
     lastgitid |-> gitID]

\* sno of the last row with endofbatch = 1, 0 when there is none
LastBatchSNO(l) ==
    LET e == {i \in 1..Len(l) : l[i].endofbatch}
    IN  IF e = {} THEN 0 ELSE CHOOSE i \in e : \A j \in e : j <= i

\* mutant: the query orders by sno ascending
GetLastSuccessfulCommit_Oldest(l) ==
    LET e == {i \in 1..Len(l) : l[i].endofbatch}
    IN  IF e = {} THEN 0 ELSE l[CHOOSE i \in e : \A j \in e : i <= j].lastgitid

\* Tracker.GetLastSuccessfulCommit: 0 is the empty string
GetLastSuccessfulCommit(l) ==
    IF LastBatchSNO(l) = 0 THEN 0 ELSE l[LastBatchSNO(l)].lastgitid


\* mutant: the query selects the rows with completed = 0
GetExecutedScriptNames_Inverted(l) ==
    {l[i].scriptName : i \in {j \in 1..Len(l) : ~l[j].completed}}

\* Tracker.GetExecutedScriptNames
GetExecutedScriptNames(l) ==
    {l[i].scriptName : i \in {j \in 1..Len(l) : l[j].completed}}


\* mutant: the rows of the whole table, whatever the checkpoint
GetHalfCommittedScripts_WholeTable(l) == l

\* mutant: the last row is left out of the result
GetHalfCommittedScripts_DropLast(l) == SubSeq(l, LastBatchSNO(l) + 1, Len(l) - 1)

\* Tracker.GetHalfCommittedScripts
GetHalfCommittedScripts(l) == SubSeq(l, LastBatchSNO(l) + 1, Len(l))


\* mutant: a deleted script is not a violation
CheckFileModifications_ModifiedOnly(fromCommit, toCommit, executed) ==
    /\ fromCommit # 0
    /\ LET statusMap == DiffFileStatus(fromCommit, toCommit)
       IN  \E file \in DOMAIN statusMap :
              /\ file \in executed \/ Base(file) \in executed
              /\ statusMap[file] = "M"

\* mutant: only the full path is looked up in the executed set
CheckFileModifications_FullPathOnly(fromCommit, toCommit, executed) ==
    /\ fromCommit # 0
    /\ LET statusMap == DiffFileStatus(fromCommit, toCommit)
       IN  \E file \in DOMAIN statusMap :
              /\ file \in executed
              /\ statusMap[file] \in {"M", "D"}

\* -------------------------------------------------------------- validator
\* Validator.CheckFileModifications: TRUE when it returns an error
CheckFileModifications(fromCommit, toCommit, executed) ==
    /\ fromCommit # 0
    /\ LET statusMap == DiffFileStatus(fromCommit, toCommit)
       IN  \E file \in DOMAIN statusMap :
              /\ file \in executed \/ Base(file) \in executed
              /\ statusMap[file] \in {"M", "D"}

\* mutant: every row after the checkpoint counts as failed
FailedRows_AllRows(halfCommitted) == 1..Len(halfCommitted)

\* Validator.CheckHalfCommittedFiles: the indices of the failed rows; it
\* returns an error naming the first of them when there is one
FailedRows(halfCommitted) ==
    {i \in 1..Len(halfCommitted) : ~halfCommitted[i].completed}


\* mutant: an error only when every row of the incomplete batch failed
CheckHalfCommittedFiles_AllFailed(halfCommitted) ==
    /\ halfCommitted # <<>>
    /\ \A i \in 1..Len(halfCommitted) : ~halfCommitted[i].completed

CheckHalfCommittedFiles(halfCommitted) == FailedRows(halfCommitted) # {}

FirstFailedName(halfCommitted) ==
    halfCommitted[CHOOSE i \in FailedRows(halfCommitted) :
                    \A j \in FailedRows(halfCommitted) : i <= j].scriptName

\* --------------------------------------------------------------- migrator

\* mutant: comment lines are kept as entries
RECURSIVE ParseMissedScripts_KeepComments(_)
ParseMissedScripts_KeepComments(lines) ==
    IF lines = <<>> THEN <<>>
    ELSE LET line == TrimSpace(Head(lines))
         IN  IF line # <<>>
             THEN <<line>> \o ParseMissedScripts_KeepComments(Tail(lines))
             ELSE ParseMissedScripts_KeepComments(Tail(lines))

\* the line filter of executeMissedScripts
RECURSIVE ParseMissedScripts(_)
ParseMissedScripts(lines) ==
    IF lines = <<>> THEN <<>>
    ELSE LET line == TrimSpace(Head(lines))
         IN  IF line # <<>> /\ ~HasPrefix(line, Hash)
             THEN <<line>> \o ParseMissedScripts(Tail(lines))
             ELSE ParseMissedScripts(Tail(lines))

NoTx == [open |-> FALSE, effects |-> <<>>, rows |-> <<>>]
NoSummary == [emitted |-> FALSE, total |-> 0, success |-> 0, failed |-> 0, skipped |-> 0]
NoCounts == [success |-> 0, failed |-> 0, skipped |-> 0]
NoName == <<>>
NoPrev == [missed |-> NoFile, res |-> "none", quiet |-> FALSE]

\* the revision id "manual" that ExecuteSingleScript uses when it cannot
\* determine the current commit
Manual == -1

\* the script executeScript is working on, and its isLast argument
CurScript ==
    IF phase \in {"missed", "single"}
    THEN [Name |-> missedScripts[idx], Path |-> Join(scriptsDir, missedScripts[idx]),
          Timestamp |-> 0]
    ELSE pendingScripts[idx]


\* mutant: the first script of the loop is taken for the last
IsLast_First == idx = 1

IsLast ==
    CASE phase = "missed" -> idx = Len(missedScripts)
      [] phase = "single" -> TRUE
      [] OTHER -> idx = Len(pendingScripts)

Init ==
    /\ commits = <<>>
    /\ isRepo \in BOOLEAN
    /\ tableExists = FALSE
    /\ scriptsDir \in ScriptsDirs
    /\ missedFile = NoFile
    /\ ledger = <<>>
    /\ effects = <<>>
    /\ tx = NoTx
    /\ pc = "idle"
    /\ lastGitID = 0
    /\ executedScripts = {}
    /\ currentCommit = 0
    /\ missedScripts = <<>>
    /\ scripts = <<>>
    /\ pendingScripts = <<>>
    /\ idx = 0
    /\ phase = "none"
    /\ counts = NoCounts
    /\ summary = NoSummary
    /\ result = "none"
    /\ errName = NoName
    /\ runs = 0
    /\ log = <<>>
    /\ ledger0 = <<>>
    /\ lenV = 0
    /\ execErr = "none"
    /\ dirty = FALSE
    /\ prev = NoPrev

\* ------------------------------------------------------------ environment
\* the locals of a run that is over are dead: they take their initial values
ForgetRun ==
    /\ lastGitID' = 0
    /\ executedScripts' = {}
    /\ currentCommit' = 0
    /\ missedScripts' = <<>>
    /\ scripts' = <<>>
    /\ pendingScripts' = <<>>
    /\ idx' = 0
    /\ phase' = "none"
    /\ counts' = NoCounts
    /\ summary' = NoSummary
    /\ log' = <<>>
    /\ ledger0' = <<>>
    /\ lenV' = 0
    /\ execErr' = "none"

\* a commit that adds, modifies or deletes one path, made while no run is in progress
GitCommit(p) ==
    /\ pc = "idle"
    /\ isRepo
    /\ head < MaxCommits
    /\ \E c \in Contents :
          /\ c # TreeAt(head)[p]
          /\ TreeAt(head)[p] = 0 => c = 1
          /\ commits' = Append(commits, [TreeAt(head) EXCEPT ![p] = c])
    /\ dirty' = TRUE
    /\ ForgetRun
    /\ missedFile' = NoFile
    /\ result' = "none"
    /\ errName' = NoName
    /\ prev' = NoPrev
    /\ UNCHANGED << isRepo, tableExists, scriptsDir, ledger, effects, tx, pc, runs >>

\* ------------------------------------------------------------ Migrator.Run
\* mutant: the repository check is left out
ValidateScriptsDirectory_Skipped == TRUE

\* Validator.ValidateScriptsDirectory returns nil: `git rev-parse --git-dir`,
\* run in the scripts directory, succeeds
ValidateScriptsDirectory == isRepo

\* Run returns res naming name: the locals of the run keep their last values
Return(res, name) ==
    /\ pc' = "idle"
    /\ result' = res
    /\ errName' = name

\* Run steps 1 to 4 up to the loop of executeMissedScripts:
\* ValidateScriptsDirectory, EnsureTable (CREATE TABLE IF NOT EXISTS, after
\* which the table exists), GetLastSuccessfulCommit, and with a
\* missed-scripts file the reading of its lines, GetCurrentCommit and
\* GetExecutedScriptNames
RunStart(mf) ==
    /\ pc = "idle"
    /\ runs < MaxRuns
    /\ runs' = runs + 1
    /\ missedFile' = mf
    /\ prev' = [missed |-> missedFile, res |-> result, quiet |-> ~dirty]
    /\ dirty' = FALSE
    /\ ledger0' = ledger
    /\ lenV' = Len(ledger)
    /\ log' = <<>>
    /\ execErr' = "none"
    /\ summary' = NoSummary
    /\ counts' = NoCounts
    /\ scripts' = <<>>
    /\ pendingScripts' = <<>>
    /\ idx' = 1
    /\ phase' = "missed"
    /\ UNCHANGED << commits, isRepo, scriptsDir, ledger, effects, tx >>
    /\ tableExists' = IF ValidateScriptsDirectory THEN TRUE ELSE tableExists
    /\ IF ~ValidateScriptsDirectory
       THEN /\ Return("errNotRepo", NoName)
            /\ lastGitID' = 0
            /\ UNCHANGED << executedScripts, currentCommit, missedScripts >>
       ELSE IF GetLastSuccessfulCommit(ledger) = Manual
       THEN \* lastGitID[:8] of an id shorter than 8 characters panics
            /\ Return("panic", NoName)
            /\ lastGitID' = Manual
            /\ UNCHANGED << executedScripts, currentCommit, missedScripts >>
       ELSE /\ lastGitID' = GetLastSuccessfulCommit(ledger)
            /\ missedScripts' = ParseMissedScripts(mf.lines)
            /\ IF ~mf.given \/ ParseMissedScripts(mf.lines) = <<>>
               THEN /\ pc' = "validate"
                    /\ result' = "none"
                    /\ errName' = NoName
                    /\ UNCHANGED << executedScripts, currentCommit >>
               ELSE IF head = 0
               THEN /\ Return("errGit", NoName)
                    /\ UNCHANGED << executedScripts, currentCommit >>
               ELSE /\ currentCommit' = head
                    /\ executedScripts' = GetExecutedScriptNames(ledger)
                    /\ pc' = "missed"
                    /\ result' = "none"
                    /\ errName' = NoName

\* the loop of executeMissedScripts: skip an entry of the executed set, call
\* executeScript for another, leave the loop after the last
MissedLoop ==
    /\ pc = "missed"
    /\ IF idx > Len(missedScripts)
       THEN /\ pc' = "validate"
            /\ idx' = idx
       ELSE IF missedScripts[idx] \in executedScripts
       THEN /\ pc' = "missed"
            /\ idx' = idx + 1
       ELSE /\ pc' = "read"
            /\ idx' = idx
    /\ UNCHANGED << commits, isRepo, tableExists, scriptsDir, missedFile, ledger, effects, tx,
                    lastGitID, executedScripts, currentCommit, missedScripts,
                    scripts, pendingScripts, phase, counts, summary, result,
                    errName, runs, log, ledger0, lenV, execErr, dirty, prev >>

\* mutant: executeMissedScripts ignores the error and Run goes on
ReturnErr_GoesOn(kind) ==
    /\ execErr' = kind
    /\ IF phase = "missed"
       THEN /\ pc' = "validate"
            /\ UNCHANGED << result, errName, counts, summary >>
       ELSE /\ Return("errScript", CurScript.Name)
            /\ counts' = [counts EXCEPT !.failed = @ + 1]
            /\ summary' = [emitted |-> TRUE, total |-> Len(scripts),
                           success |-> counts.success, failed |-> counts.failed + 1,
                           skipped |-> counts.skipped]
    /\ UNCHANGED idx

\* mutant: the discovery loop returns the error without printing the summary
ReturnErr_NoSummary(kind) ==
    /\ execErr' = kind
    /\ IF phase = "missed"
       THEN /\ Return("errMissed", CurScript.Name)
            /\ UNCHANGED << counts, summary >>
       ELSE /\ Return("errScript", CurScript.Name)
            /\ counts' = [counts EXCEPT !.failed = @ + 1]
            /\ summary' = summary
    /\ UNCHANGED idx

\* executeScript returned an error to its caller: executeMissedScripts returns it
\* to Run, which returns it; the discovery loop counts it, prints the summary and returns
ReturnErr(kind) ==
    /\ execErr' = kind
    /\ IF phase = "missed"
       THEN /\ Return("errMissed", CurScript.Name)
            /\ UNCHANGED << counts, summary >>
       ELSE IF phase = "single"
       THEN /\ Return("errSingle", CurScript.Name)
            /\ UNCHANGED << counts, summary >>
       ELSE /\ Return("errScript", CurScript.Name)
            /\ counts' = [counts EXCEPT !.failed = @ + 1]
            /\ summary' = [emitted |-> TRUE, total |-> Len(scripts),
                           success |-> counts.success, failed |-> counts.failed + 1,
                           skipped |-> counts.skipped]
    /\ UNCHANGED idx

\* mutant: the discovery loop does not count a script that succeeded
ReturnOk_NoCount ==
    /\ idx' = idx + 1
    /\ counts' = counts
    /\ IF phase = "single"
       THEN Return("ok", NoName)
       ELSE /\ pc' = IF phase = "missed" THEN "missed" ELSE "loop"
            /\ UNCHANGED << result, errName >>
    /\ UNCHANGED << summary, execErr >>

\* executeScript returned nil: the caller goes on with the next entry
ReturnOk ==
    /\ idx' = idx + 1
    /\ counts' = IF phase = "discovery" THEN [counts EXCEPT !.success = @ + 1]
                 ELSE counts
    /\ IF phase = "single"
       THEN Return("ok", NoName)
       ELSE /\ pc' = IF phase = "missed" THEN "missed" ELSE "loop"
            /\ UNCHANGED << result, errName >>
    /\ UNCHANGED << summary, execErr >>

\* mutant: a script that cannot be read gets a failure row
ExecBegin_RecordsReadFailure ==
    /\ pc = "read"
    /\ IF ~ReadFileOK(Join(scriptsDir, CurScript.Name)) /\ ~ReadFileOK(CurScript.Path)
       THEN /\ ReturnErr("read")
            /\ ledger' = Append(ledger, Row(CurScript.Name, FALSE, FALSE, currentCommit))
            /\ UNCHANGED << tx, log >>
       ELSE /\ ledger' = ledger
            /\ \E ok \in BOOLEAN :
                 IF ok
                 THEN /\ tx' = [open |-> TRUE, effects |-> <<>>, rows |-> <<>>]
                      /\ log' = Append(log, [name |-> CurScript.Name, phase |-> phase])
                      /\ pc' = "sql"
                      /\ UNCHANGED << idx, counts, summary, result, errName, execErr >>
                 ELSE /\ ReturnErr("begin")
                      /\ UNCHANGED << tx, log >>
    /\ UNCHANGED << commits, isRepo, tableExists, scriptsDir, missedFile, effects,
                    lastGitID, executedScripts, currentCommit, missedScripts,
                    scripts, pendingScripts, phase, runs, ledger0, lenV, dirty, prev >>

\* executeScript: read the content (by name in the scripts directory, else
\* by the recorded path) and begin the transaction
ExecBegin ==
    /\ pc = "read"
    /\ IF ~ReadFileOK(Join(scriptsDir, CurScript.Name)) /\ ~ReadFileOK(CurScript.Path)
       THEN /\ ReturnErr("read")
            /\ UNCHANGED << tx, log >>
       ELSE \E ok \in BOOLEAN :
              IF ok
              THEN /\ tx' = [open |-> TRUE, effects |-> <<>>, rows |-> <<>>]
                   /\ log' = Append(log, [name |-> CurScript.Name, phase |-> phase])
                   /\ pc' = "sql"
                   /\ UNCHANGED << idx, counts, summary, result, errName, execErr >>
              ELSE /\ ReturnErr("begin")
                   /\ UNCHANGED << tx, log >>
    /\ UNCHANGED << commits, isRepo, tableExists, scriptsDir, missedFile, ledger, effects,
                    lastGitID, executedScripts, currentCommit, missedScripts,
                    scripts, pendingScripts, phase, runs, ledger0, lenV, dirty, prev >>

\* executeScript: db.ExecuteSQL(tx, content) succeeds or fails
ExecSQL ==
    /\ pc = "sql"
    /\ \E ok \in BOOLEAN :
          IF ok
          THEN /\ tx' = [tx EXCEPT !.effects = Append(@, CurScript.Name)]
               /\ pc' = "record"
          ELSE /\ tx' = tx
               /\ pc' = "recordDirect"
    /\ UNCHANGED << commits, isRepo, tableExists, scriptsDir, missedFile, ledger, effects,
                    lastGitID, executedScripts, currentCommit, missedScripts,
                    scripts, pendingScripts, idx, phase, counts, summary, result,
                    errName, runs, log, ledger0, lenV, execErr, dirty, prev >>

\* mutant: the INSERT always sets endofbatch
RecordExecutionDirect_Terminator(name, completed, endOfBatch, gitID, ok) ==
    IF ok THEN Append(ledger, Row(name, completed, TRUE, gitID)) ELSE ledger

\* mutant: the INSERT replaces the newest row of the table
RecordExecutionDirect_Replace(name, completed, endOfBatch, gitID, ok) ==
    IF ok
    THEN SubSeq(ledger, 1, Len(ledger) - 1) \o << Row(name, completed, endOfBatch, gitID) >>
    ELSE ledger

\* Tracker.RecordExecutionDirect: an INSERT outside the transaction, committed
\* at once when it succeeds; the new ledger
RecordExecutionDirect(name, completed, endOfBatch, gitID, ok) ==
    IF ok THEN Append(ledger, Row(name, completed, endOfBatch, gitID)) ELSE ledger

\* executeScript after a SQL error: record the failure (the error of the
\* INSERT is discarded) while the transaction is still open; an INSERT into
\* a table that does not exist fails
ExecRecordFailure ==
    /\ pc = "recordDirect"
    /\ \E ok \in (IF tableExists THEN BOOLEAN ELSE {FALSE}) :
          ledger' = RecordExecutionDirect(CurScript.Name, FALSE, FALSE, currentCommit, ok)
    /\ pc' = "rollback"
    /\ execErr' = "sql"
    /\ UNCHANGED << commits, isRepo, tableExists, scriptsDir, missedFile, effects, tx,
                    lastGitID, executedScripts, currentCommit, missedScripts,
                    scripts, pendingScripts, idx, phase, counts, summary, result,
                    errName, runs, log, ledger0, lenV, dirty, prev >>

\* mutant: executeScript returns the error and leaves the transaction open
ExecRollback_KeepsTx ==
    /\ pc = "rollback"
    /\ tx' = tx
    /\ ReturnErr(execErr)
    /\ UNCHANGED << commits, isRepo, tableExists, scriptsDir, missedFile, ledger, effects,
                    lastGitID, executedScripts, currentCommit, missedScripts,
                    scripts, pendingScripts, phase, runs, log, ledger0, lenV,
                    dirty, prev >>

\* the deferred tx.Rollback() of an executeScript that returns an error
ExecRollback ==
    /\ pc = "rollback"
    /\ tx' = NoTx
    /\ ReturnErr(execErr)
    /\ UNCHANGED << commits, isRepo, tableExists, scriptsDir, missedFile, ledger, effects,
                    lastGitID, executedScripts, currentCommit, missedScripts,
                    scripts, pendingScripts, phase, runs, log, ledger0, lenV,
                    dirty, prev >>


\* mutant: the success row is written with completed = 0
RecordExecution_NotCompleted(t, name, completed, endOfBatch, gitID) ==
    [t EXCEPT !.rows = Append(@, Row(name, FALSE, endOfBatch, gitID))]

\* Tracker.RecordExecution: an INSERT inside the transaction; the new transaction
RecordExecution(t, name, completed, endOfBatch, gitID) ==
    [t EXCEPT !.rows = Append(@, Row(name, completed, endOfBatch, gitID))]

\* executeScript after the SQL succeeded: record the success in the
\* transaction; an INSERT into a table that does not exist fails
ExecRecordSuccess ==
    /\ pc = "record"
    /\ \E ok \in (IF tableExists THEN BOOLEAN ELSE {FALSE}) :
          IF ok
          THEN /\ tx' = RecordExecution(tx, CurScript.Name, TRUE, IsLast, currentCommit)
               /\ pc' = "commit"
               /\ execErr' = execErr
          ELSE /\ tx' = tx
               /\ pc' = "rollback"
               /\ execErr' = "record"
    /\ UNCHANGED << commits, isRepo, tableExists, scriptsDir, missedFile, ledger, effects,
                    lastGitID, executedScripts, currentCommit, missedScripts,
                    scripts, pendingScripts, idx, phase, counts, summary, result,
                    errName, runs, log, ledger0, lenV, dirty, prev >>

\* mutant: a commit that reports an error has made the work durable
ExecCommit_FailedCommitKeeps ==
    /\ pc = "commit"
    /\ \E ok \in BOOLEAN :
          IF ok
          THEN /\ ledger' = ledger \o tx.rows
               /\ effects' = effects \o tx.effects
               /\ tx' = NoTx
               /\ ReturnOk
          ELSE /\ ledger' = ledger \o tx.rows
               /\ effects' = effects \o tx.effects
               /\ UNCHANGED << tx, idx, counts, summary, result, errName >>
               /\ pc' = "rollback"
               /\ execErr' = "commit"
    /\ UNCHANGED << commits, isRepo, tableExists, scriptsDir, missedFile, lastGitID,
                    executedScripts, currentCommit, missedScripts, scripts,
                    pendingScripts, phase, runs, log, ledger0, lenV, dirty, prev >>

\* tx.Commit(): the work of the transaction becomes durable, all of it at once
ExecCommit ==
    /\ pc = "commit"
    /\ \E ok \in BOOLEAN :
          IF ok
          THEN /\ ledger' = ledger \o tx.rows
               /\ effects' = effects \o tx.effects
               /\ tx' = NoTx
               /\ ReturnOk
          ELSE /\ UNCHANGED << ledger, effects, tx, idx, counts, summary, result, errName >>
               /\ pc' = "rollback"
               /\ execErr' = "commit"
    /\ UNCHANGED << commits, isRepo, tableExists, scriptsDir, missedFile, lastGitID,
                    executedScripts, currentCommit, missedScripts, scripts,
                    pendingScripts, phase, runs, log, ledger0, lenV, dirty, prev >>

\* Run steps 5 to 10: executed names, current commit, tamper check,
\* half-committed check, discovery and the pending filter
Validate ==
    /\ pc = "validate"
    /\ executedScripts' = GetExecutedScriptNames(ledger)
    /\ lenV' = Len(ledger)
    /\ phase' = "discovery"
    /\ idx' = 1
    /\ IF head = 0
       THEN /\ Return("errGit", NoName)
            /\ UNCHANGED << currentCommit, scripts, pendingScripts, counts >>
       ELSE /\ currentCommit' = head
            /\ IF CheckFileModifications(lastGitID, head, GetExecutedScriptNames(ledger))
               THEN /\ Return("errTamper", NoName)
                    /\ UNCHANGED << scripts, pendingScripts, counts >>
               ELSE IF CheckHalfCommittedFiles(GetHalfCommittedScripts(ledger))
               THEN /\ Return("errHalf", FirstFailedName(GetHalfCommittedScripts(ledger)))
                    /\ UNCHANGED << scripts, pendingScripts, counts >>
               ELSE IF GetChangedScriptsPanics(lastGitID, head, scriptsDir)
               THEN /\ Return("panic", NoName)
                    /\ UNCHANGED << scripts, pendingScripts, counts >>
               ELSE \E found \in GetChangedScripts(lastGitID, head, scriptsDir) :
                      LET pending == SelectSeq(found,
                              LAMBDA sc : sc.Name \notin GetExecutedScriptNames(ledger))
                      IN  /\ scripts' = found
                          /\ pendingScripts' = pending
                          /\ IF pending = <<>>
                             THEN /\ Return("ok", NoName)
                                  /\ counts' = counts
                             ELSE /\ pc' = "loop"
                                  /\ counts' = [success |-> 0, failed |-> 0,
                                                skipped |-> Len(found) - Len(pending)]
                                  /\ UNCHANGED << result, errName >>
    /\ UNCHANGED << commits, isRepo, tableExists, scriptsDir, missedFile, ledger, effects, tx,
                    lastGitID, missedScripts, summary, runs, log, ledger0, execErr,
                    dirty, prev >>

\* the loop of step 11: call executeScript for the next pending script, or
\* print the summary and return nil after the last
DiscoveryLoop ==
    /\ pc = "loop"
    /\ IF idx > Len(pendingScripts)
       THEN /\ Return("ok", NoName)
            /\ summary' = [emitted |-> TRUE, total |-> Len(scripts),
                           success |-> counts.success, failed |-> counts.failed,
                           skipped |-> counts.skipped]
       ELSE /\ pc' = "read"
            /\ UNCHANGED << summary, result, errName >>
    /\ UNCHANGED << commits, isRepo, tableExists, scriptsDir, missedFile, ledger, effects, tx,
                    lastGitID, executedScripts, currentCommit, missedScripts,
                    scripts, pendingScripts, idx, phase, counts, runs, log,
                    ledger0, lenV, execErr, dirty, prev >>

\* the process stops at any point of a run; the database rolls back the
\* transaction the connection had open
Crash ==
    /\ pc # "idle"
    /\ tx' = NoTx
    /\ Return("crashed", NoName)
    /\ ForgetRun
    /\ UNCHANGED << commits, isRepo, tableExists, scriptsDir, missedFile, ledger, effects,
                    runs, dirty, prev >>

\* ------------------------------------------------------------------- main
\* main exits before Run is called: ParseArgs returned an error ("errUsage")
\* or db.Connect did ("errConnect")
MainFails(kind) ==
    /\ pc = "idle"
    /\ runs < MaxRuns
    /\ runs' = runs + 1
    /\ ForgetRun
    /\ result' = kind
    /\ errName' = NoName
    /\ missedFile' = NoFile
    /\ prev' = NoPrev
    /\ UNCHANGED << commits, isRepo, tableExists, scriptsDir, ledger, effects, tx, pc, dirty >>

\* the exit status of the process that ended last: os.Exit(0) after Run
\* returned nil, os.Exit(1) after an error of ParseArgs, db.Connect or Run,
\* the status 2 of the Go runtime after a panic nothing recovers; NoExit
\* while no process has ended by itself
NoExit == -1
ExitCode ==
    CASE result = "ok" -> 0
      [] result = "panic" -> 2
      [] result \in {"none", "crashed"} -> NoExit
      [] OTHER -> 1

\* Migrator.ExecuteSingleScript: GetCurrentCommit, with "manual" in place of
\* the commit when it fails, then executeScript with isLast = true
ExecuteSingleScript(scriptName) ==
    /\ pc = "idle"
    /\ runs < MaxRuns
    /\ runs' = runs + 1
    /\ missedFile' = NoFile
    /\ prev' = NoPrev
    /\ ledger0' = ledger
    /\ lenV' = Len(ledger)
    /\ log' = <<>>
    /\ execErr' = "none"
    /\ summary' = NoSummary
    /\ counts' = NoCounts
    /\ scripts' = <<>>
    /\ pendingScripts' = <<>>
    /\ lastGitID' = 0
    /\ executedScripts' = {}
    /\ missedScripts' = << scriptName >>
    /\ idx' = 1
    /\ phase' = "single"
    /\ \E gitOK \in BOOLEAN :
          currentCommit' = IF gitOK /\ isRepo /\ head # 0 THEN head ELSE Manual
    /\ pc' = "read"
    /\ result' = "none"
    /\ errName' = NoName
    /\ UNCHANGED << commits, isRepo, tableExists, scriptsDir, ledger, effects, tx, dirty >>

Next ==
    \/ \E kind \in {"errUsage", "errConnect"} : MainFails(kind)
    \/ \E p \in Paths : GitCommit(p)
    \/ \E mf \in MissedFiles \cup {NoFile} : RunStart(mf)
    \/ MissedLoop
    \/ ExecBegin
    \/ ExecSQL
    \/ ExecRecordFailure
    \/ ExecRollback
    \/ ExecRecordSuccess
    \/ ExecCommit
    \/ Validate
    \/ DiscoveryLoop
    \/ Crash

Spec == Init /\ [][Next]_vars

\* the program with its exported entry point ExecuteSingleScript as well
NextSingle ==
    \/ Next
    \/ \E scriptName \in {ASql, BSql} : ExecuteSingleScript(scriptName)

SpecSingle == Init /\ [][NextSingle]_vars

\* ----------------------------------------------------------------- claims
\* a run has returned and nothing happened since
RunOver == pc = "idle" /\ phase # "none"

\* the names with a completed row when the run started
Completed0 == {ledger0[i].scriptName : i \in {j \in 1..Len(ledger0) : ledger0[j].completed}}

\* sno of the latest terminator row when the run started, 0 when there is none
Terminator0 ==
    LET e == {i \in 1..Len(ledger0) : ledger0[i].endofbatch}
    IN  IF e = {} THEN 0 ELSE CHOOSE i \in e : \A j \in e : j <= i

\* trees at the checkpoint of the run's start and at HEAD
CheckpointTree0 == IF Terminator0 = 0 THEN EmptyTree ELSE commits[ledger0[Terminator0].lastgitid]
HeadTree == IF head = 0 THEN EmptyTree ELSE commits[head]

\* a checkpoint exists and a script with a completed row was modified or
\* deleted between the checkpoint revision and HEAD
TamperedAtStart ==
    /\ phase # "none"
    /\ Terminator0 # 0
    /\ \E p \in Paths :
          /\ p \in Completed0 \/ Base(p) \in Completed0
          /\ CheckpointTree0[p] # 0
          /\ CheckpointTree0[p] # HeadTree[p]

\* the rows with completed = false after the latest terminator when the run started
FailedAtStart ==
    {i \in 1..Len(ledger0) : i > Terminator0 /\ ~ledger0[i].completed}

UnresolvedAtStart == phase # "none" /\ FailedAtStart # {}

\* the rows the run appended, and those it appended after the missed-scripts phase
AppendedRows == SubSeq(ledger, Len(ledger0) + 1, Len(ledger))
DiscoveryRows == SubSeq(ledger, lenV + 1, Len(ledger))
OldRowsKept == Len(ledger) >= Len(ledger0) /\ SubSeq(ledger, 1, Len(ledger0)) = ledger0

\* C1 as claimed: a run that starts with a tampered executed script returns
\* the tamper error, executes no script at all and appends no ledger row
C1_AsClaimed ==
    TamperedAtStart =>
        /\ log = <<>>
        /\ ledger = ledger0
        /\ RunOver => result = "errTamper"

\* C1 amended: such a run executes no discovered script and alters no row; it
\* returns the tamper error unless a script of the missed-scripts list failed
\* first; without a missed-scripts file it executes nothing and appends nothing
C1_TamperStopsDiscovery ==
    TamperedAtStart =>
        /\ \A i \in 1..Len(log) : log[i].phase = "missed"
        /\ pc # "loop"
        /\ OldRowsKept
        /\ RunOver => result \in {"errTamper", "errMissed"}
        /\ ~missedFile.given =>
              /\ log = <<>>
              /\ ledger = ledger0
              /\ RunOver => result = "errTamper"

C1_Witness ==
    /\ TamperedAtStart
    /\ RunOver
    /\ result = "errTamper"
    /\ ~missedFile.given
    /\ \E p \in Paths : Base(p) \in Completed0 /\ HeadTree[p] \notin {0, CheckpointTree0[p]}

\* the rows a discovery loop appends when the scripts before pending script k
\* succeed and k fails: k-1 success rows, none a terminator, and one failure row
RECURSIVE SuccessRows(_, _)
SuccessRows(k, n) ==
    IF k = 0 THEN <<>>
    ELSE Append(SuccessRows(k - 1, n),
                [scriptName |-> pendingScripts[k].Name, completed |-> TRUE,
                 endofbatch |-> (k = n), lastgitid |-> currentCommit])

FailureRow(name) ==
    [scriptName |-> name, completed |-> FALSE, endofbatch |-> FALSE,
     lastgitid |-> currentCommit]

\* C2 as claimed: when the SQL of pending script k fails, the run has appended
\* a success row for each of the k-1 scripts before it, in order, and exactly
\* one failure row for k, has begun no transaction for a later script and
\* returns an error naming k
C2_AsClaimed ==
    (RunOver /\ result = "errScript" /\ execErr = "sql") =>
        /\ DiscoveryRows = Append(SuccessRows(idx - 1, Len(pendingScripts)),
                                  FailureRow(pendingScripts[idx].Name))
        /\ errName = pendingScripts[idx].Name
        /\ Len(SelectSeq(log, LAMBDA e : e.phase = "discovery")) = idx

\* C3 as claimed: every run started with an unresolved failed row returns
\* the unresolved-failed-batch error naming the script of that row
C3_AsClaimed ==
    (UnresolvedAtStart /\ RunOver) =>
        /\ result = "errHalf"
        /\ \A i \in FailedAtStart : errName = ledger0[i].scriptName

\* C3 amended: without a missed-scripts file such a run returns the tamper
\* error when an executed script was tampered with, and otherwise the
\* unresolved-failed-batch error naming the lowest-ordinal failed row
C3_ResumeBlocked ==
    (UnresolvedAtStart /\ RunOver /\ ~missedFile.given) =>
        IF TamperedAtStart
        THEN result = "errTamper"
        ELSE /\ result = "errHalf"
             /\ errName = ledger0[CHOOSE i \in FailedAtStart : \A j \in FailedAtStart : i <= j].scriptName

C3_Witness ==
    /\ UnresolvedAtStart
    /\ RunOver
    /\ ~missedFile.given
    /\ result = "errHalf"
    /\ \E i \in FailedAtStart : errName = ledger0[i].scriptName

\* C4 as claimed: a run started with an unresolved failed row begins no
\* transaction, neither in the missed-scripts phase nor in the discovery phase
C4_AsClaimed ==
    UnresolvedAtStart => log = <<>>

\* C4 amended: without a missed-scripts file such a run begins no transaction,
\* holds none open and leaves the ledger and the committed effects as they were
C4_NoBlindRetry ==
    (UnresolvedAtStart /\ ~missedFile.given) =>
        /\ log = <<>>
        /\ ~tx.open
        /\ ledger = ledger0
        /\ pc \in {"validate", "idle"}

C4_Witness ==
    /\ UnresolvedAtStart
    /\ ~missedFile.given
    /\ RunOver
    /\ log = <<>>
    /\ \E p \in Paths : HeadTree[p] # 0 /\ Base(p) \notin Completed0

\* C5 as claimed: no script name has two rows with completed = true
C5_AsClaimed ==
    \A i, j \in 1..Len(ledger) :
        (i < j /\ ledger[i].completed /\ ledger[j].completed)
            => ledger[i].scriptName # ledger[j].scriptName

\* C6 as claimed: a run that follows a run that returned, with the same
\* configuration and no commit in between, appends no row and changes none
C6_AsClaimed ==
    (phase # "none" /\ prev.res \notin {"none", "crashed"} /\ prev.quiet
        /\ prev.missed = missedFile)
        => ledger = ledger0

\* C6 amended: the same, when the first of the two runs returned success; the
\* second run then begins no transaction either
C6_IdempotentAfterSuccess ==
    (phase # "none" /\ prev.res = "ok" /\ prev.quiet /\ prev.missed = missedFile)
        => /\ ledger = ledger0
           /\ log = <<>>
           /\ ~tx.open

C6_Witness ==
    /\ RunOver
    /\ prev.res = "ok"
    /\ prev.quiet
    /\ prev.missed = missedFile
    /\ missedFile.given
    /\ result = "ok"
    /\ Len(ledger) >= 2

\* time of the earliest commit that added path p
FirstAddTime(p) ==
    LET adds == {c \in 1..head : commits[c][p] # 0 /\ (IF c = 1 THEN 0 ELSE commits[c - 1][p]) = 0}
    IN  CHOOSE c \in adds : \A d \in adds : c <= d

\* C7 as claimed: the pending scripts are in ascending order of the time of
\* the commit that first added each of them
C7_AsClaimed ==
    (phase = "discovery" /\ pc \in {"loop", "idle"}) =>
        \A i, j \in 1..Len(pendingScripts) :
            i < j => FirstAddTime(pendingScripts[i].Path) <= FirstAddTime(pendingScripts[j].Path)

\* C8 as claimed: a successful run with n >= 1 pending scripts has appended
\* exactly n rows, in pending order, completed, with the current revision,
\* the last one alone a terminator; older rows are as they were
C8_AsClaimed ==
    (RunOver /\ result = "ok" /\ pendingScripts # <<>>) =>
        /\ AppendedRows = SuccessRows(Len(pendingScripts), Len(pendingScripts))
        /\ OldRowsKept

\* C8 amended: the n rows are those appended after the missed-scripts phase;
\* the rows of the missed-scripts phase of the same run precede them
C8_BatchTerminator ==
    (RunOver /\ result = "ok" /\ pendingScripts # <<>>) =>
        /\ DiscoveryRows = SuccessRows(Len(pendingScripts), Len(pendingScripts))
        /\ currentCommit = head
        /\ lenV >= Len(ledger0)
        /\ OldRowsKept

C8_Witness ==
    /\ RunOver
    /\ result = "ok"
    /\ Len(pendingScripts) >= 2
    /\ Len(ledger0) >= 1
    /\ ledger0[Len(ledger0)].lastgitid # head

\* the names of the rows with completed = true, in sno order
RECURSIVE CompletedNames(_)
CompletedNames(l) ==
    IF l = <<>> THEN <<>>
    ELSE IF l[1].completed THEN <<l[1].scriptName>> \o CompletedNames(Tail(l))
    ELSE CompletedNames(Tail(l))

\* C9: in every state, also after a crash or an error inside executeScript,
\* the committed effects are exactly those of the scripts with a committed
\* success row, one for one and in the same order
C9_Atomicity == effects = CompletedNames(ledger)

C9_Witness ==
    /\ pc = "idle"
    /\ result = "crashed"
    /\ Len(effects) >= 1
    /\ \E i \in 1..Len(ledger) : ~ledger[i].completed

\* C10 as claimed: a run that returns because a script's SQL failed has
\* appended a completed = false row for that script
C10_AsClaimed ==
    (RunOver /\ result \in {"errScript", "errMissed"} /\ execErr = "sql") =>
        \E i \in (Len(ledger0) + 1)..Len(ledger) :
            ledger[i].scriptName = errName /\ ~ledger[i].completed

Checkpoint == GetLastSuccessfulCommit(ledger)

ModifiedSinceExecuted ==
    /\ phase # "none"
    /\ \E p \in Paths : \E i \in 1..Len(ledger0) :
          /\ ledger0[i].completed
          /\ ledger0[i].scriptName = Base(p)
          /\ TreeAt(ledger0[i].lastgitid)[p] # 0
          /\ TreeAt(ledger0[i].lastgitid)[p] # HeadTree[p]

\* C13 as claimed: a run that starts while an executed script is modified or
\* deleted since its execution fails
C13_AsClaimed ==
    (RunOver /\ ModifiedSinceExecuted) => result # "ok"

\* the run started on the residue of a stopped batch: rows after the latest
\* terminator, all of them completed
CrashedBatchAtStart ==
    /\ phase # "none"
    /\ Len(ledger0) > Terminator0
    /\ FailedAtStart = {}

\* the names of the scripts for which the run began a transaction, in order
LogNames == [i \in 1..Len(log) |-> log[i].name]
PendingNames == [i \in 1..Len(pendingScripts) |-> pendingScripts[i].Name]

\* the run executed exactly the discovered scripts without a completed row,
\* each once and in order, appended their success rows and nothing else, the
\* last of them a terminator with the current revision
RecoveredBatch ==
    /\ result = "ok"
    /\ LogNames = PendingNames
    /\ \A i \in 1..Len(scripts) :
          scripts[i].Name \notin Completed0
              <=> \E j \in 1..Len(pendingScripts) : pendingScripts[j] = scripts[i]
    /\ AppendedRows = SuccessRows(Len(pendingScripts), Len(pendingScripts))
    /\ currentCommit = head
    /\ OldRowsKept

C15_AppendOnly ==
    [][/\ Len(ledger') >= Len(ledger)
       /\ SubSeq(ledger', 1, Len(ledger)) = ledger]_vars

C15_Witness ==
    /\ RunOver
    /\ OldRowsKept
    /\ Len(ledger0) >= 1
    /\ Len(AppendedRows) >= 2
    /\ \E i \in 1..Len(AppendedRows) : ~AppendedRows[i].completed
    /\ \E i \in 1..Len(AppendedRows) : AppendedRows[i].completed

\* C16 as claimed: every run that has returned has printed the summary
C16_AsClaimed == RunOver => summary.emitted

\* C16 amended: the summary is printed only as the last act of a run, and by
\* exactly the runs that found pending scripts and returned from the
\* discovery loop, after all of them succeeded or after the first failure
C16_SummaryAfterLoop ==
    /\ pc # "idle" => ~summary.emitted
    /\ RunOver =>
          (summary.emitted <=> (result \in {"ok", "errScript"} /\ pendingScripts # <<>>))

C16_Witness ==
    /\ RunOver
    /\ result = "errScript"
    /\ summary.emitted
    /\ summary.failed = 1
    /\ summary.success >= 1

\* C17: at most one script transaction exists at any time, and only inside
\* executeScript: whenever a loop is about to call executeScript for the next
\* script, or Run validates or has returned, the transaction of the script
\* before is committed or rolled back; the work of an open transaction is
\* that of the one script being executed, the last for which one was begun
C17_Sequential ==
    /\ tx.open => pc \in {"sql", "recordDirect", "record", "commit", "rollback"}
    /\ pc \in {"idle", "missed", "validate", "loop", "read"} => tx = NoTx
    /\ tx.open =>
          /\ log # <<>>
          /\ log[Len(log)].name = CurScript.Name
          /\ \A i \in 1..Len(tx.effects) : tx.effects[i] = CurScript.Name
          /\ \A i \in 1..Len(tx.rows) : tx.rows[i].scriptName = CurScript.Name
          /\ Len(tx.effects) <= 1
          /\ Len(tx.rows) <= 1

C17_Witness ==
    /\ tx.open
    /\ pc = "commit"
    /\ phase = "discovery"
    /\ idx >= 2
    /\ Len(log) >= 2
    /\ execErr = "none"

\* C18 as claimed: a process that ended by itself exited with 0 exactly when
\* argument parsing, the connection and Run succeeded, with 1 otherwise
C18_AsClaimed ==
    (pc = "idle" /\ ExitCode # NoExit) =>
        /\ ExitCode = 0 <=> result = "ok"
        /\ result # "ok" => ExitCode = 1

\* the lines of the missed-scripts file without their surrounding white space
TrimmedLines == [i \in 1..Len(missedFile.lines) |-> TrimSpace(missedFile.lines[i])]

\* the rows the run appended in its missed-scripts phase
MissedRows ==
    SubSeq(ledger, Len(ledger0) + 1, IF phase = "missed" THEN Len(ledger) ELSE lenV)

\* C19 as claimed: the list executeMissedScripts processes is the sequence of
\* the lines of the file that are not blank and do not start with '#'
C19_AsClaimed ==
    (phase # "none" /\ isRepo) =>
        missedScripts = SelectSeq(missedFile.lines,
                            LAMBDA l : TrimSpace(l) # <<>> /\ ~(l # <<>> /\ l[1] = "#"))

\* C19 amended: the list is the sequence, in file order, of the lines with
\* their surrounding white space removed, leaving out those that are then
\* empty or start with '#'; every transaction begun and every row appended
\* in the missed-scripts phase is for an entry of that list
C19_MissedListFormat ==
    (phase # "none" /\ isRepo) =>
        /\ missedScripts = SelectSeq(TrimmedLines, LAMBDA l : l # <<>> /\ l[1] # "#")
        /\ \A i \in 1..Len(log) :
              log[i].phase = "missed" =>
                  /\ \E j \in 1..Len(TrimmedLines) : log[i].name = TrimmedLines[j]
                  /\ log[i].name # <<>>
                  /\ log[i].name[1] \notin {"#", " "}
                  /\ log[i].name[Len(log[i].name)] # " "
        /\ \A i \in 1..Len(MissedRows) :
              /\ \E j \in 1..Len(TrimmedLines) : MissedRows[i].scriptName = TrimmedLines[j]
              /\ MissedRows[i].scriptName # <<>>
              /\ MissedRows[i].scriptName[1] \notin {"#", " "}

C19_Witness ==
    /\ RunOver
    /\ Len(missedFile.lines) = 5
    /\ missedScripts = << ASql >>
    /\ Len(MissedRows) = 1
    /\ MissedRows[1].scriptName = ASql
    /\ \E i \in 1..Len(log) : log[i].phase = "missed" /\ log[i].name = ASql

\* C20 as claimed: a completed = false row is appended only when no
\* transaction is open: the failing script's transaction is rolled back first
C20_AsClaimed ==
    [][(Len(ledger') > Len(ledger) /\ ~ledger'[Len(ledger')].completed)
          => ~tx.open]_vars

\* C21 as claimed (checked with ExecuteSingleScript among the entry points):
\* every row with completed = false has endofbatch = false and the revision
\* id of a commit, the current one for the rows of the run in progress
C21_AsClaimed ==
    /\ \A i \in 1..Len(ledger) :
          ~ledger[i].completed =>
              /\ ~ledger[i].endofbatch
              /\ ledger[i].lastgitid \in 1..head
    /\ phase # "none" =>
          \A i \in 1..Len(AppendedRows) :
              ~AppendedRows[i].completed => AppendedRows[i].lastgitid = head

\* C21 amended: every row with completed = false has endofbatch = false, so
\* the checkpoint row is never a failure row, and carries the revision id
\* executeScript was given: the current revision in Run and in the
\* missed-scripts phase; in ExecuteSingleScript the current revision, or
\* "manual" when it could not be determined
C21_FailureRows ==
    /\ \A i \in 1..Len(ledger) :
          ~ledger[i].completed =>
              /\ ~ledger[i].endofbatch
              /\ ledger[i].lastgitid \in (1..head) \cup {Manual}
    /\ LastBatchSNO(ledger) # 0 => ledger[LastBatchSNO(ledger)].completed
    /\ phase # "none" =>
          \A i \in 1..Len(AppendedRows) :
              ~AppendedRows[i].completed =>
                  /\ AppendedRows[i].lastgitid = currentCommit
                  /\ currentCommit # head => (phase = "single" /\ currentCommit = Manual)

C21_Witness ==
    /\ pc = "idle"
    /\ phase = "single"
    /\ result = "errSingle"
    /\ execErr = "sql"
    /\ Len(AppendedRows) = 1
    /\ ~AppendedRows[1].completed
    /\ AppendedRows[1].lastgitid = Manual
    /\ \E i \in 1..Len(ledger0) : ~ledger0[i].completed /\ ledger0[i].lastgitid = head

\* C22 as claimed: a row the run appended with endofbatch = true is the last
\* row the run appended, so a run appends at most one such row
C22_AsClaimed ==
    phase # "none" =>
        \A i \in 1..Len(AppendedRows) :
            AppendedRows[i].endofbatch => i = Len(AppendedRows)

\* C23 as claimed: after a run that returned an error the checkpoint is the
\* one the run started with
C23_AsClaimed ==
    (RunOver /\ result \notin {"ok", "panic"}) =>
        GetLastSuccessfulCommit(ledger) = GetLastSuccessfulCommit(ledger0)

\* the ledger as steps 5 to 8 of the run read it, and its rows after the
\* greatest-ordinal terminator row
RowsAtValidate == SubSeq(ledger, 1, lenV)

RowsAfterCheckpoint ==
    LET e == {i \in 1..lenV : ledger[i].endofbatch}
        lo == IF e = {} THEN 0 ELSE CHOOSE i \in e : \A j \in e : j <= i
    IN  SubSeq(ledger, lo + 1, lenV)

\* the run has made its half-committed check: it got past the repository
\* check, GetCurrentCommit and the tamper check
HalfCheckMade ==
    /\ phase = "discovery"
    /\ ~(pc = "idle" /\ result \in {"errGit", "errTamper"})

\* C24: the half-committed check fails exactly when a row after the
\* checkpoint has completed = false, naming the lowest-ordinal such row and
\* leaving the ledger as it was read; it passes when there is no row after
\* the checkpoint and when all of them have completed = true
C24_HalfCommittedDecision ==
    HalfCheckMade =>
        LET failed == {i \in 1..Len(RowsAfterCheckpoint) : ~RowsAfterCheckpoint[i].completed}
        IN  IF failed # {}
            THEN /\ pc = "idle"
                 /\ result = "errHalf"
                 /\ errName = RowsAfterCheckpoint[CHOOSE i \in failed : \A j \in failed : i <= j].scriptName
                 /\ ledger = RowsAtValidate
                 /\ log = <<>> \/ log[Len(log)].phase = "missed"
            ELSE result # "errHalf"

C24_Witness ==
    /\ HalfCheckMade
    /\ RunOver
    /\ result = "ok"
    /\ RowsAfterCheckpoint # <<>>
    /\ \A i \in 1..Len(RowsAfterCheckpoint) : RowsAfterCheckpoint[i].completed
    /\ pendingScripts # <<>>

\* the names with a completed row in the ledger as step 5 of the run read it
CompletedAtValidate ==
    {ledger[i].scriptName : i \in {j \in 1..lenV : ledger[j].completed}}

\* a path of a completed name that existed at the checkpoint the run read
\* and is different or absent at HEAD
TamperSeen ==
    /\ lastGitID # 0
    /\ \E p \in Paths :
          /\ p \in CompletedAtValidate \/ Base(p) \in CompletedAtValidate
          /\ TreeAt(lastGitID)[p] # 0
          /\ TreeAt(lastGitID)[p] # HeadTree[p]

\* C25: a run that reaches the tamper check returns the tamper error if and
\* only if a path of a completed name is Modified or Deleted between the
\* checkpoint and HEAD; Added paths, paths of other names and the absence of
\* a checkpoint never make it fail
C25_TamperDecision ==
    (phase = "discovery" /\ ~(pc = "idle" /\ result = "errGit")) =>
        ((pc = "idle" /\ result = "errTamper") <=> TamperSeen)

C25_Witness ==
    /\ RunOver
    /\ phase = "discovery"
    /\ result = "ok"
    /\ lastGitID # 0
    /\ ~TamperSeen
    /\ \E p \in Paths :
          /\ Base(p) \in CompletedAtValidate
          /\ TreeAt(lastGitID)[p] = 0
          /\ HeadTree[p] # 0

\* the ordinals of the terminator rows of a ledger
Terminators(l) == {i \in 1..Len(l) : l[i].endofbatch}

\* C26: GetLastSuccessfulCommit is empty exactly when the ledger has no
\* terminator row and is otherwise the revision id of the terminator row of
\* greatest ordinal; GetHalfCommittedScripts returns the rows after that same
\* row, all rows when there is none; a run works from the checkpoint of the
\* ledger it started with
C26_CheckpointDerivation ==
    /\ GetLastSuccessfulCommit(ledger) = 0 <=> Terminators(ledger) = {}
    /\ Terminators(ledger) = {} => GetHalfCommittedScripts(ledger) = ledger
    /\ \A i \in Terminators(ledger) :
          (\A j \in Terminators(ledger) : j <= i) =>
              /\ GetLastSuccessfulCommit(ledger) = ledger[i].lastgitid
              /\ GetHalfCommittedScripts(ledger) = [k \in 1..(Len(ledger) - i) |-> ledger[i + k]]
    /\ (phase # "none" /\ isRepo) =>
          /\ Terminators(ledger0) = {} => lastGitID = 0
          /\ \A i \in Terminators(ledger0) :
                (\A j \in Terminators(ledger0) : j <= i) => lastGitID = ledger0[i].lastgitid

C26_Witness ==
    /\ phase = "discovery"
    /\ lastGitID # 0
    /\ \E i, j \in Terminators(ledger) :
          /\ i < j
          /\ ledger[i].lastgitid # ledger[j].lastgitid
          /\ GetLastSuccessfulCommit(ledger) = ledger[j].lastgitid
    /\ GetHalfCommittedScripts(ledger) # ledger

\* C27: when the INSERT of the success row or the commit fails, executeScript
\* rolls the transaction back and returns the error, and the run returns an
\* error naming the script; the script is the last for which a transaction
\* was begun; the run has appended the success rows of the scripts before it
\* and nothing for it, and the committed effects are those of the success rows
C27_LedgerWriteFailure ==
    /\ execErr \in {"record", "commit"} => pc \in {"rollback", "idle"}
    /\ (pc = "idle" /\ phase # "none" /\ execErr \in {"record", "commit"}) =>
          /\ result \in {"errScript", "errMissed"}
          /\ errName = CurScript.Name
          /\ tx = NoTx
          /\ log # <<>>
          /\ log[Len(log)].name = errName
          /\ Len(AppendedRows) = Len(log) - 1
          /\ \A i \in 1..Len(AppendedRows) :
                /\ AppendedRows[i].completed
                /\ AppendedRows[i].scriptName = log[i].name
          /\ OldRowsKept
          /\ effects = CompletedNames(ledger)

C27_Witness ==
    /\ RunOver
    /\ execErr = "commit"
    /\ result = "errScript"
    /\ Len(log) >= 2
    /\ Len(AppendedRows) = Len(log) - 1
    /\ idx < Len(pendingScripts)

\* the names of the scripts the missed-scripts phase of the run completed
MissedCompleted ==
    {MissedRows[i].scriptName : i \in {j \in 1..Len(MissedRows) : MissedRows[j].completed}}

NothingPendingAtStart ==
    /\ phase # "none"
    /\ isRepo
    /\ head # 0
    /\ \A p \in Paths :
          CheckpointTree0[p] # HeadTree[p] => Base(p) \in Completed0

C31_SummaryCounts ==
    summary.emitted =>
        /\ summary.total = Len(scripts)
        /\ summary.skipped = Len(scripts) - Len(pendingScripts)
        /\ summary.failed \in {0, 1}
        /\ summary.success + summary.failed <= Len(pendingScripts)
        /\ result = "ok" =>
              /\ summary.failed = 0
              /\ summary.success + summary.skipped = summary.total

\* a successful run that skipped a discovered script and executed another
C31_Witness ==
    /\ RunOver
    /\ result = "ok"
    /\ summary.emitted
    /\ summary.skipped >= 1
    /\ summary.success >= 1

\* the changed paths of the diff range of the run that end in ".sql"
ChangedSqlPaths ==
    {p \in Paths : DiffStatus(lastGitID, currentCommit, p) # "" /\ HasSuffix(p, SqlSuffix)}

\* C32 as claimed: a run that reaches the discovery never aborts in
\* GetChangedScripts, and the list it obtains holds exactly one entry for
\* every changed path ending in ".sql", with the base name of the path as
\* its name, and no other entry
C32_AsClaimed ==
    (phase = "discovery" /\ result \notin {"errGit", "errTamper", "errHalf"}) =>
        /\ result # "panic"
        /\ Len(scripts) = Cardinality(ChangedSqlPaths)
        /\ \A p \in ChangedSqlPaths :
              \E i \in 1..Len(scripts) :
                  /\ scripts[i].Path = p
                  /\ scripts[i].Name = Base(p)
                  /\ \A j \in 1..Len(scripts) : scripts[j].Path = p => j = i

\* C33 as claimed: every discovered script carries the time of the earliest
\* commit that added its path (every path of a diff has commit history)
C33_AsClaimed ==
    phase = "discovery" =>
        \A i \in 1..Len(scripts) :
            scripts[i].Timestamp = CommitTime(FirstAddTime(scripts[i].Path))

\* C34: with a scripts directory outside every repository, Run returns the
\* not-a-repository error at once and every run does: the ledger table is
\* not created, no row is read (the checkpoint is never derived) or written,
\* the missed-scripts list is not parsed, no transaction is begun and no
\* script takes effect
C34_RepositoryCheckFirst ==
    ~isRepo =>
        /\ pc = "idle"
        /\ ~tableExists
        /\ ledger = <<>>
        /\ effects = <<>>
        /\ tx = NoTx
        /\ log = <<>>
        /\ lastGitID = 0
        /\ missedScripts = <<>>
        /\ executedScripts = {}
        /\ ~summary.emitted
        /\ phase # "none" => result = "errNotRepo"

\* a second run outside a repository, given a missed-scripts file with an
\* entry, has returned
C34_Witness ==
    /\ RunOver
    /\ ~isRepo
    /\ result = "errNotRepo"
    /\ runs = 2
    /\ missedFile.given
    /\ ParseMissedScripts(missedFile.lines) # <<>>

====
